---- MODULE Spec2Model ----
(***************************************************************************)
(* bloodpressure: a command-line tool that appends blood-pressure readings *)
(* to <data-local-dir>/bloodpressure/data.csv and reports the most recent  *)
(* ones.  One invocation of the program (record, report or show-path) is   *)
(* one step of the model; the filesystem is the state that survives from   *)
(* one invocation to the next.                                             *)
(*                                                                         *)
(* The backing file is a sequence of characters.  The csv writer and       *)
(* reader and the integer formatting and parsing are modelled by what they *)
(* do on those characters.                                                 *)
(***************************************************************************)
EXTENDS Integers, Sequences, FiniteSets, TLC

VARIABLES
    dirExists,    \* the directory <data-local-dir>/bloodpressure exists
    fileExists,   \* the file data.csv exists
    fileData,     \* the characters of data.csv (<<>> while it does not exist)
    writeFaults,  \* number of record invocations whose write failed so far
    cmd,          \* the subcommand of the last invocation
    home,         \* dirs::data_local_dir() returned Some in the last invocation
    result,       \* "ok" or "err": what main returned
    stdout,       \* the lines the last invocation printed
    record,       \* do_record's `record`, as <<r>>; <<>> when it was not built
    records,      \* do_report's `records` when it returned
    limit         \* opts.limit of the last report

vars == <<dirExists, fileExists, fileData, writeFaults, cmd, home, result,
          stdout, record, records, limit>>

(***************************************************************************)
(* Bounds of the model.                                                    *)
(***************************************************************************)
\* capacity of the backing file for record, in characters
MaxBytes == 26
\* largest --limit tried
MaxLimit == 3
\* how many writes may fail part-way
MaxFaults == 1
\* largest number of rows of a backing file that exists at the start
MaxRows == 3

\* values Utc::now() returns: seconds since the epoch, and the sub-second part
Seconds == {59, 60}
Nanos == {0, 500}
\* values of --top, --bottom and --pulse
Tops == {120}
Bottoms == {80}
Pulses == {60}
\* pulse values in the rows of a backing file that exists at the start
StorePulses == {60, 65}

(***************************************************************************)
(* Characters and integer formatting / parsing.                            *)
(***************************************************************************)
Comma == ","
Newline == "\n"
Digits == {"0", "1", "2", "3", "4", "5", "6", "7", "8", "9"}

DigitChar(d) ==
    CASE d = 0 -> "0" [] d = 1 -> "1" [] d = 2 -> "2" [] d = 3 -> "3"
      [] d = 4 -> "4" [] d = 5 -> "5" [] d = 6 -> "6" [] d = 7 -> "7"
      [] d = 8 -> "8" [] d = 9 -> "9"

DigitValue(c) ==
    CASE c = "0" -> 0 [] c = "1" -> 1 [] c = "2" -> 2 [] c = "3" -> 3
      [] c = "4" -> 4 [] c = "5" -> 5 [] c = "6" -> 6 [] c = "7" -> 7
      [] c = "8" -> 8 [] c = "9" -> 9

\* Display of an unsigned integer: its decimal digits, no leading zeros.
RECURSIVE ToDigits(_)
ToDigits(n) ==
    IF n < 10 THEN <<DigitChar(n)>>
    ELSE Append(ToDigits(n \div 10), DigitChar(n % 10))

\* The number the first n characters of s denote in decimal.
RECURSIVE DigitsValue(_, _)
DigitsValue(s, n) ==
    IF n = 0 THEN 0 ELSE 10 * DigitsValue(s, n - 1) + DigitValue(s[n])

ParseError == -1

\* str::parse of an integer field: the empty string and any non-digit are
\* errors.  (Numbers above 2^31 - 1, where the range checks of u32 and i64
\* would come in, do not arise within the bounds.)
ParseInt(s) ==
    IF s = <<>> \/ \E i \in 1..Len(s) : s[i] \notin Digits THEN ParseError
    ELSE DigitsValue(s, Len(s))

(***************************************************************************)
(* struct Record and its traits.                                           *)
(***************************************************************************)
\* A Record value: timestamp is a DateTime<Utc> (whole seconds since the
\* epoch and the sub-second part), the other fields are u32.
Record(secs, nanos, systolic, diastolic, pulse) ==
    [timestamp |-> [secs |-> secs, nanos |-> nanos],
     systolic |-> systolic, diastolic |-> diastolic, pulse |-> pulse]

CmpInt(a, b) == IF a < b THEN "Less" ELSE IF a > b THEN "Greater" ELSE "Equal"

\* DateTime::cmp: by instant.
CmpTimestamp(a, b) ==
    IF a.secs # b.secs THEN CmpInt(a.secs, b.secs) ELSE CmpInt(a.nanos, b.nanos)

\* The hand-written PartialOrd::partial_cmp: the timestamps alone.
partial_cmp(a, b) == CmpTimestamp(a.timestamp, b.timestamp)

\* The derived Ord::cmp: lexicographic over the fields in declaration order.
\* Nothing in the program calls it (slice::sort compares with lt); the derive
\* only provides the Ord bound that sort() asks for.
cmp(a, b) ==
    IF CmpTimestamp(a.timestamp, b.timestamp) # "Equal"
        THEN CmpTimestamp(a.timestamp, b.timestamp)
    ELSE IF a.systolic # b.systolic THEN CmpInt(a.systolic, b.systolic)
    ELSE IF a.diastolic # b.diastolic THEN CmpInt(a.diastolic, b.diastolic)
    ELSE CmpInt(a.pulse, b.pulse)

\* Mutant of lt: the comparison of the derived Ord, as sort_by(Ord::cmp)
\* would apply it.
lt_by_cmp(a, b) == cmp(a, b) = "Less"

\* PartialOrd::lt, the provided method: partial_cmp says Less.  This is the
\* comparison slice::sort applies (stable_sort(self, T::lt)).
lt(a, b) == partial_cmp(a, b) = "Less"

\* chrono::serde::ts_seconds, serializing: the whole seconds of the instant.
ts_seconds(timestamp) == timestamp.secs

\* Display for Record: the time to the minute ("%Y-%m-%d %I:%M%P"), then the
\* three numbers.  The conversion to the local time zone shifts every
\* instant alike and is left out.
SecondsPerMinute == 60
Display(r) ==
    <<"BP", r.timestamp.secs \div SecondsPerMinute, r.systolic, r.diastolic, r.pulse>>

(***************************************************************************)
(* The csv writer and reader.                                              *)
(***************************************************************************)
\* Mutant of serialize: diastolic and pulse written in the wrong order.
serialize_swapped(r) ==
    ToDigits(ts_seconds(r.timestamp)) \o <<Comma>> \o ToDigits(r.systolic)
        \o <<Comma>> \o ToDigits(r.pulse) \o <<Comma>> \o ToDigits(r.diastolic)
        \o <<Newline>>

\* writer.serialize(record) with has_headers(false): the four fields in
\* declaration order, comma separated, one terminated row, no header.
serialize(r) ==
    ToDigits(ts_seconds(r.timestamp)) \o <<Comma>> \o ToDigits(r.systolic)
        \o <<Comma>> \o ToDigits(r.diastolic) \o <<Comma>> \o ToDigits(r.pulse)
        \o <<Newline>>

\* The pieces of s between occurrences of sep (always at least one piece).
RECURSIVE SplitOn(_, _)
SplitOn(s, sep) ==
    LET at == {i \in 1..Len(s) : s[i] = sep}
    IN  IF at = {} THEN <<s>>
        ELSE LET first == CHOOSE i \in at : \A j \in at : i <= j
             IN  <<SubSeq(s, 1, first - 1)>>
                     \o SplitOn(SubSeq(s, first + 1, Len(s)), sep)

NonEmpty(line) == line # <<>>

RECURSIVE FieldsOf(_, _)
FieldsOf(lines, i) ==
    IF i > Len(lines) THEN <<>>
    ELSE <<SplitOn(lines[i], Comma)>> \o FieldsOf(lines, i + 1)

\* The rows the csv reader yields, each as its sequence of fields: rows end
\* at a newline or at the end of the data, and empty lines are skipped.
ReadRows(data) == FieldsOf(SelectSeq(SplitOn(data, Newline), NonEmpty), 1)

NoRecord == <<>>

\* Deserializing one row into a Record: <<r>>, or NoRecord on an error.  The
\* fields are taken in declaration order; a missing field or a field that is
\* not an integer is an error, fields beyond the fourth are not looked at.
\* ts_seconds yields an instant on a whole second.
Deserialize(fields) ==
    IF Len(fields) < 4 THEN NoRecord
    ELSE LET v == [i \in 1..4 |-> ParseInt(fields[i])]
         IN  IF \E i \in 1..4 : v[i] = ParseError THEN NoRecord
             ELSE <<Record(v[1], 0, v[2], v[3], v[4])>>

\* Mutant of LoadFrom: a row that fails is skipped.
RECURSIVE LoadFromSkipping(_, _, _)
LoadFromSkipping(rows, i, acc) ==
    IF i > Len(rows) THEN [ok |-> TRUE, records |-> acc]
    ELSE IF Len(rows[i]) # Len(rows[1]) \/ Deserialize(rows[i]) = NoRecord
        THEN LoadFromSkipping(rows, i + 1, acc)
    ELSE LoadFromSkipping(rows, i + 1, Append(acc, Deserialize(rows[i])[1]))

\* The loop `for result in reader.deserialize() { records.push(result?); }`
\* from row i on, acc being `records` so far: the records in file order, or
\* an error at the first row that fails.  A row fails when it does not
\* deserialize or when (the reader is not flexible) it has another number of
\* fields than the first row.
RECURSIVE LoadFrom(_, _, _)
LoadFrom(rows, i, acc) ==
    IF i > Len(rows) THEN [ok |-> TRUE, records |-> acc]
    ELSE IF Len(rows[i]) # Len(rows[1]) THEN [ok |-> FALSE, records |-> <<>>]
    ELSE LET d == Deserialize(rows[i])
         IN  IF d = NoRecord THEN [ok |-> FALSE, records |-> <<>>]
             ELSE LoadFrom(rows, i + 1, Append(acc, d[1]))

LoadAll(data) == LoadFrom(ReadRows(data), 1, <<>>)

(***************************************************************************)
(* Vec operations of do_report.                                            *)
(***************************************************************************)
\* Inserting x into an ascending sequence behind every element that is not
\* greater than x: the sort is stable.
RECURSIVE InsertSorted(_, _)
InsertSorted(x, s) ==
    IF s = <<>> THEN <<x>>
    ELSE IF lt(x, s[Len(s)])
        THEN InsertSorted(x, SubSeq(s, 1, Len(s) - 1)) \o <<s[Len(s)]>>
    ELSE s \o <<x>>

\* Mutant of sort: the records stay in file order.
sort_noop(s) == s

\* records.sort(): ascending by lt, stable.
RECURSIVE sort(_)
sort(s) ==
    IF s = <<>> THEN <<>>
    ELSE InsertSorted(s[Len(s)], sort(SubSeq(s, 1, Len(s) - 1)))

\* Mutant of reverse: the order stays ascending.
reverse_noop(s) == s

\* records.reverse()
RECURSIVE reverse(_)
reverse(s) ==
    IF s = <<>> THEN <<>>
    ELSE <<s[Len(s)]>> \o reverse(SubSeq(s, 1, Len(s) - 1))

\* Mutant of take: one element too many.
take_one_more(s, n) == SubSeq(s, 1, IF n + 1 < Len(s) THEN n + 1 ELSE Len(s))

\* records.iter().take(n)
take(s, n) == SubSeq(s, 1, IF n < Len(s) THEN n ELSE Len(s))

\* println!("{}", record) for each record of s from the i-th on.
RECURSIVE PrintFrom(_, _)
PrintFrom(s, i) ==
    IF i > Len(s) THEN <<>> ELSE <<Display(s[i])>> \o PrintFrom(s, i + 1)

(***************************************************************************)
(* The filesystem calls.                                                   *)
(***************************************************************************)
\* get_data_paths: fails when dirs::data_local_dir() is None.
get_data_paths(h) == h

\* fs::create_dir_all(data_dir), when it succeeds: the directory exists.
create_dir_all(exists) == TRUE

\* Mutant of AppendTo: the file is opened with truncate(true).
WriteTruncating(data, bytes) == bytes

\* Mutant of AppendTo: the file is opened without append(true), the write
\* goes to its start.
WriteAtStart(data, bytes) == bytes \o SubSeq(data, Len(bytes) + 1, Len(data))

\* A write to the file opened with create(true).append(true): the bytes go
\* behind the contents the file has.
AppendTo(data, bytes) == data \o bytes

\* Mutant of OpenRead: the file is opened with create(true).
OpenReadCreating(exists) == TRUE

\* OpenOptions::new().read(true).open(data_path) succeeds only on a file
\* that exists.
OpenRead(exists) == exists

\* println!("Data Path: {:?}", data_path)
PathLine == <<"Data Path", "bloodpressure", "data.csv">>

\* The call of an invocation that fails, if any: "path" is get_data_paths,
\* the others are I/O errors of create_dir_all, open, and the write or read.
RecordFaults == {"none", "path", "mkdir", "open", "write"}
ReportFaults == {"none", "path", "mkdir", "open", "read"}

(***************************************************************************)
(* The backing file at the start.                                          *)
(***************************************************************************)
\* Rows that record wrote in earlier runs.
GoodRows ==
    {serialize(Record(s, 0, t, b, p)) :
        s \in Seconds, t \in Tops, b \in Bottoms, p \in StorePulses}

\* Rows that record never writes but a data.csv edited by hand may hold: a
\* row of three fields, and a row with a field that is not a number.
BadRows ==
    {<<"5", "9", ",", "1", "2", "0", ",", "8", "0", "\n">>,
     <<"6", "0", ",", "1", "2", "x", ",", "8", "0", ",", "6", "0", "\n">>}

\* The files of at most n rows.
RECURSIVE FilesOf(_)
FilesOf(n) ==
    IF n = 0 THEN {<<>>}
    ELSE FilesOf(n - 1) \cup
             {f \o r : f \in FilesOf(n - 1), r \in GoodRows \cup BadRows}

(***************************************************************************)
(* The invocations.                                                        *)
(***************************************************************************)
\* Before the first invocation of a run: either data.csv does not exist
\* (and its directory may or may not), or it exists and holds some rows.
Init ==
    /\ \/ /\ dirExists \in BOOLEAN
          /\ fileExists = FALSE
          /\ fileData = <<>>
       \/ /\ dirExists = TRUE
          /\ fileExists = TRUE
          /\ fileData \in FilesOf(MaxRows)
    /\ writeFaults = 0
    /\ cmd = "none"
    /\ home = TRUE
    /\ result = "none"
    /\ stdout = <<>>
    /\ record = NoRecord
    /\ records = <<>>
    /\ limit = 0

\* main with Command::Record(opts).  fault: the call that fails, if any;
\* secs, nanos: the value of Utc::now().  A write that fails may have
\* written any proper prefix of the row.
do_record(fault, top, bottom, pulse, secs, nanos) ==
    LET r == Record(secs, nanos, top, bottom, pulse)
        row == serialize(r)
    IN
    /\ cmd' = "record"
    /\ home' = get_data_paths(fault # "path")
    /\ stdout' = <<>>
    /\ records' = <<>>
    /\ limit' = 0
    /\ IF ~get_data_paths(fault # "path") \/ (fault = "mkdir" /\ ~dirExists)
       THEN /\ result' = "err"
            /\ record' = NoRecord
            /\ UNCHANGED <<dirExists, fileExists, fileData, writeFaults>>
       ELSE IF fault = "open"
       THEN /\ result' = "err"
            /\ record' = NoRecord
            /\ dirExists' = create_dir_all(dirExists)
            /\ UNCHANGED <<fileExists, fileData, writeFaults>>
       ELSE /\ Len(fileData) + Len(row) <= MaxBytes
            /\ dirExists' = create_dir_all(dirExists)
            /\ fileExists' = TRUE
            /\ record' = <<r>>
            /\ IF fault = "write"
               THEN /\ writeFaults < MaxFaults
                    /\ writeFaults' = writeFaults + 1
                    /\ result' = "err"
                    /\ \E k \in 0..(Len(row) - 1) :
                           fileData' = AppendTo(fileData, SubSeq(row, 1, k))
               ELSE /\ result' = "ok"
                    /\ fileData' = AppendTo(fileData, row)
                    /\ UNCHANGED writeFaults

\* main with Command::Report(opts), opts.limit = n.
do_report(fault, n) ==
    LET opened == /\ get_data_paths(fault # "path")
                  /\ ~(fault = "mkdir" /\ ~dirExists)
        loaded == LoadAll(fileData)
        sorted == reverse(sort(loaded.records))
        success == /\ opened
                   /\ fault \notin {"open", "read"}
                   /\ OpenRead(fileExists)
                   /\ loaded.ok
    IN
    /\ cmd' = "report"
    /\ home' = get_data_paths(fault # "path")
    /\ limit' = n
    /\ record' = NoRecord
    /\ dirExists' = IF opened THEN create_dir_all(dirExists) ELSE dirExists
    /\ UNCHANGED <<fileExists, fileData, writeFaults>>
    /\ IF success
       THEN /\ result' = "ok"
            /\ records' = sorted
            /\ stdout' = PrintFrom(take(sorted, n), 1)
       ELSE /\ result' = "err"
            /\ records' = <<>>
            /\ stdout' = <<>>

\* Mutant of do_show_path: the directory is created, as record and report do.
do_show_path_creating(fault) ==
    /\ cmd' = "show-path"
    /\ home' = get_data_paths(fault # "path")
    /\ limit' = 0
    /\ record' = NoRecord
    /\ records' = <<>>
    /\ result' = IF get_data_paths(fault # "path") THEN "ok" ELSE "err"
    /\ stdout' = IF get_data_paths(fault # "path") THEN <<PathLine>> ELSE <<>>
    /\ dirExists' = IF get_data_paths(fault # "path") THEN create_dir_all(dirExists)
                                                     ELSE dirExists
    /\ UNCHANGED <<fileExists, fileData, writeFaults>>

\* main with Command::ShowPath.
do_show_path(fault) ==
    /\ cmd' = "show-path"
    /\ home' = get_data_paths(fault # "path")
    /\ limit' = 0
    /\ record' = NoRecord
    /\ records' = <<>>
    /\ result' = IF get_data_paths(fault # "path") THEN "ok" ELSE "err"
    /\ stdout' = IF get_data_paths(fault # "path") THEN <<PathLine>> ELSE <<>>
    /\ UNCHANGED <<dirExists, fileExists, fileData, writeFaults>>

\* The readings an invocation of record is tried with: a fault before the
\* record is built makes its outcome independent of them.
RecordInputs(fault) ==
    IF fault \in {"none", "write"}
    THEN Tops \X Bottoms \X Pulses \X Seconds \X Nanos
    ELSE {<<CHOOSE t \in Tops : TRUE, CHOOSE b \in Bottoms : TRUE,
            CHOOSE p \in Pulses : TRUE, CHOOSE s \in Seconds : TRUE,
            CHOOSE n \in Nanos : TRUE>>}

\* The limits an invocation of report is tried with: a fault makes its
\* outcome independent of the limit.
ReportInputs(fault) == IF fault = "none" THEN 0..MaxLimit ELSE {MaxLimit}

Next ==
    \/ \E fault \in RecordFaults : \E in \in RecordInputs(fault) :
           do_record(fault, in[1], in[2], in[3], in[4], in[5])
    \/ \E fault \in ReportFaults : \E n \in ReportInputs(fault) :
           do_report(fault, n)
    \/ \E fault \in {"none", "path"} : do_show_path(fault)

Spec == Init /\ [][Next]_vars

(***************************************************************************)
(* The row format on its own: record invocations that succeed, over        *)
(* readings of one to ten digits, starting without a backing file.         *)
(***************************************************************************)
RoundTripSeconds == {59, 1700000000}
RoundTripValues == {0, 7, 120}

InitNoFile ==
    /\ dirExists \in BOOLEAN
    /\ fileExists = FALSE
    /\ fileData = <<>>
    /\ writeFaults = 0
    /\ cmd = "none"
    /\ home = TRUE
    /\ result = "none"
    /\ stdout = <<>>
    /\ record = NoRecord
    /\ records = <<>>
    /\ limit = 0

NextRecord ==
    \E top \in RoundTripValues, bottom \in RoundTripValues,
       pulse \in RoundTripValues, secs \in RoundTripSeconds, nanos \in Nanos :
        do_record("none", top, bottom, pulse, secs, nanos)

SpecRoundTrip == InitNoFile /\ [][NextRecord]_vars

(***************************************************************************)
(* Definitions the properties are stated with.                             *)
(***************************************************************************)
\* What the load step of report reads from the backing file as it is now.
Loaded == LoadAll(fileData)

IsPrefix(a, b) == Len(a) <= Len(b) /\ SubSeq(b, 1, Len(a)) = a

\* A reading as it is stored: its timestamp at second granularity.
AtSeconds(r) == [r EXCEPT !.timestamp = [secs |-> r.timestamp.secs, nanos |-> 0]]

\* The file is empty (or absent) or its last row is terminated, and every
\* row has the four fields of a reading.
WholeRows(data) ==
    /\ data = <<>> \/ data[Len(data)] = Newline
    /\ \A i \in 1..Len(ReadRows(data)) : Len(ReadRows(data)[i]) = 4

\* A row from which four integers cannot be read.
Malformed(fields) ==
    \/ Len(fields) < 4
    \/ \E i \in 1..4 : fields[i] = <<>> \/ \E k \in 1..Len(fields[i]) : fields[i][k] \notin Digits

Min(a, b) == IF a < b THEN a ELSE b

\* How often x occurs in s.
Count(s, x) == Cardinality({i \in 1..Len(s) : s[i] = x})

SameReadings(s, t) ==
    /\ Len(s) = Len(t)
    /\ \A i \in 1..Len(s) : Count(s, s[i]) = Count(t, s[i])

ReportOk == cmd = "report" /\ result = "ok"

\* The lines report prints for the readings recs, loaded in that order.
ReportLines(recs, n) == PrintFrom(take(reverse(sort(recs)), n), 1)

\* recs in the order p.
Permuted(recs, p) == SubSeq([i \in 1..Len(recs) |-> recs[p[i]]], 1, Len(recs))

(***************************************************************************)
(* C1: a successful record on a store that loads as [r1..rn] leaves a      *)
(* store that loads as [r1..rn, r], and the file exists afterwards.  As    *)
(* claimed, for every store that loads: this fails when the file ends in   *)
(* an unterminated row, which the new row is glued to.                     *)
(***************************************************************************)
C1_AppendOnlyAnyStore ==
    [][(cmd' = "record" /\ result' = "ok" /\ Loaded.ok)
        => /\ fileExists'
           /\ LoadAll(fileData').ok
           /\ LoadAll(fileData').records
                  = Append(Loaded.records, AtSeconds(record'[1]))]_vars

\* C1 as amended: the same, for a store whose file is absent or consists of
\* terminated four-field rows only.
C1_AppendOnly ==
    [][(cmd' = "record" /\ result' = "ok" /\ Loaded.ok /\ WholeRows(fileData))
        => /\ fileExists'
           /\ LoadAll(fileData').ok
           /\ LoadAll(fileData').records
                  = Append(Loaded.records, AtSeconds(record'[1]))]_vars

\* A successful record has appended to a store that held a reading.
C1_Witness ==
    /\ cmd = "record" /\ result = "ok"
    /\ WholeRows(fileData) /\ Loaded.ok
    /\ Len(Loaded.records) = 2
    /\ Loaded.records[2] = AtSeconds(record[1])

(***************************************************************************)
(* C2: report lists the stored readings latest first: a reading with a     *)
(* later timestamp stands before every reading with an earlier one, and    *)
(* the printed lines are those of the first readings of that list, so an   *)
(* earlier reading is printed only if every later one is.                  *)
(***************************************************************************)
C2_Ordering ==
    ReportOk =>
        /\ SameReadings(records, Loaded.records)
        /\ \A i, j \in 1..Len(records) :
               CmpTimestamp(records[j].timestamp, records[i].timestamp) = "Less"
                   => i < j
        /\ Len(stdout) <= Len(records)
        /\ \A k \in 1..Len(stdout) : stdout[k] = Display(records[k])

\* The scenario: the file holds an earlier reading and then a later one,
\* and report --limit 1 prints the later one only.
C2_Witness ==
    /\ ReportOk /\ limit = 1
    /\ Len(Loaded.records) = 2
    /\ CmpTimestamp(Loaded.records[1].timestamp, Loaded.records[2].timestamp) = "Less"
    /\ stdout = <<Display(Loaded.records[2])>>

(***************************************************************************)
(* C3: a successful report --limit L on a file of N rows prints            *)
(* min(N, L) lines.                                                        *)
(***************************************************************************)
C3_LimitSemantics ==
    ReportOk => Len(stdout) = Min(Len(ReadRows(fileData)), limit)

\* report ran with a limit above the number of rows of the file.
C3_Witness ==
    ReportOk /\ Len(ReadRows(fileData)) = 2 /\ limit = 3 /\ Len(stdout) = 2

\* report ran with limit 0 on a file of three rows.
C3_WitnessBelow ==
    ReportOk /\ Len(ReadRows(fileData)) = 3 /\ limit = 0 /\ stdout = <<>>

(***************************************************************************)
(* C4: report on a missing backing file fails and prints nothing.          *)
(***************************************************************************)
C4_MissingStore ==
    (cmd = "report" /\ ~fileExists) => (result = "err" /\ stdout = <<>>)

\* report ran with the path resolved and the directory present, but no file.
C4_Witness ==
    cmd = "report" /\ ~fileExists /\ home /\ dirExists /\ result = "err"

C5_WitnessFirst ==
    /\ cmd = "report" /\ home /\ limit > 0
    /\ Len(ReadRows(fileData)) = 3
    /\ Malformed(ReadRows(fileData)[1])
    /\ ~Malformed(ReadRows(fileData)[2])
    /\ ~Malformed(ReadRows(fileData)[3])

C5_WitnessLast ==
    /\ cmd = "report" /\ home /\ limit > 0
    /\ Len(ReadRows(fileData)) = 3
    /\ ~Malformed(ReadRows(fileData)[1])
    /\ ~Malformed(ReadRows(fileData)[2])
    /\ Malformed(ReadRows(fileData)[3])

(***************************************************************************)
(* C6: the comparison report's sort applies looks at timestamps only:      *)
(* readings with one timestamp compare equal whatever their other fields,  *)
(* and the place of each reading in the sorted list is fixed by the        *)
(* timestamps (later ones first) and, among equal timestamps, by the row   *)
(* order of the file (later rows first), never by the other fields.        *)
(***************************************************************************)
\* The place in report's list of the i-th reading of the file.
Rank(recs, i) ==
    1 + Cardinality({j \in 1..Len(recs) :
                        CmpTimestamp(recs[i].timestamp, recs[j].timestamp) = "Less"})
      + Cardinality({j \in (i + 1)..Len(recs) :
                        recs[j].timestamp = recs[i].timestamp})

C6_TimestampOnly ==
    ReportOk =>
        /\ \A i, j \in 1..Len(records) :
               records[i].timestamp = records[j].timestamp
                   => ~lt(records[i], records[j]) /\ ~lt(records[j], records[i])
        /\ Len(records) = Len(Loaded.records)
        /\ \A i \in 1..Len(Loaded.records) :
               records[Rank(Loaded.records, i)] = Loaded.records[i]

\* report sorted a file in which the reading with the smaller pulse comes
\* after one with the same timestamp and a larger pulse.
C6_Witness ==
    /\ ReportOk
    /\ \E i, j \in 1..Len(Loaded.records) :
           /\ i < j
           /\ Loaded.records[i].timestamp = Loaded.records[j].timestamp
           /\ Loaded.records[i].pulse > Loaded.records[j].pulse

(***************************************************************************)
(* C7: the row record writes for a reading taken on a whole second is read *)
(* back by report's load step as one reading, equal to it in all fields.   *)
(***************************************************************************)
C7_RoundTrip ==
    (cmd = "record" /\ record # NoRecord /\ record[1].timestamp.nanos = 0)
        => LoadAll(serialize(record[1])) = [ok |-> TRUE, records |-> record]

\* record wrote the row of a reading taken on a whole second.
C7_Witness ==
    /\ cmd = "record" /\ result = "ok"
    /\ record # NoRecord /\ record[1].timestamp.nanos = 0
    /\ IsPrefix(serialize(record[1]), fileData)

C9_ShowPathFrame ==
    [][cmd' = "show-path"
        => /\ dirExists' = dirExists
           /\ fileExists' = fileExists
           /\ fileData' = fileData
           /\ home' => (result' = "ok" /\ stdout' = <<PathLine>>)]_vars

\* show-path succeeded with neither the directory nor the file there.
C9_Witness ==
    /\ cmd = "show-path" /\ result = "ok" /\ stdout = <<PathLine>>
    /\ ~dirExists /\ ~fileExists

(***************************************************************************)
(* C10: report prints the same lines for every row order of the file.  As  *)
(* claimed, also when readings share a timestamp: this fails, such         *)
(* readings are printed in the reverse of their row order.                 *)
(***************************************************************************)
C10_RowOrderAnyStore ==
    ReportOk =>
        \A p \in Permutations(1..Len(Loaded.records)) :
            ReportLines(Permuted(Loaded.records, p), limit) = stdout

\* Readings that share a timestamp are equal in every field.
NoTies(recs) ==
    \A i, j \in 1..Len(recs) :
        recs[i].timestamp = recs[j].timestamp => recs[i] = recs[j]

\* C10 as amended: the same, for files in which the readings that share a
\* timestamp are equal in every field.
C10_RowOrder ==
    (ReportOk /\ NoTies(Loaded.records)) =>
        \A p \in Permutations(1..Len(Loaded.records)) :
            ReportLines(Permuted(Loaded.records, p), limit) = stdout

\* report printed two lines of a file of three rows that are not in report's
\* order, two of them the same reading.
C10_Witness ==
    /\ ReportOk /\ limit = 2 /\ NoTies(Loaded.records)
    /\ Len(Loaded.records) = 3
    /\ Loaded.records[1] = Loaded.records[3]
    /\ CmpTimestamp(Loaded.records[1].timestamp, Loaded.records[2].timestamp) = "Less"

====
